---- MODULE Spec2Model ----
(***************************************************************************)
(* Model of src/utils.py: the clustering evaluation routines cluster_acc   *)
(* and eva, and the soft-assignment pair q_distribute /                    *)
(* target_distribution.                                                    *)
(*                                                                         *)
(* Numbers are exact rationals [n |-> numerator, d |-> denominator] in     *)
(* lowest terms with d > 0; the two non-finite values a float division by  *)
(* zero produces are kept as NaN (0/0) and Inf (x/0).  Rounding is not     *)
(* modelled.                                                               *)
(***************************************************************************)
EXTENDS Integers, Sequences, FiniteSets, TLC

\* ------------------------------------------------------------------ bounds
\* longest label array handed to cluster_acc / eva
MaxN == 3
\* label values are drawn from 0..MaxLabel
MaxLabel == 2
\* most rows (samples) of an embedding matrix Z
MaxPoints == 1
\* most cluster centers
MaxClusters == 2
\* most features of an embedding
MaxDim == 1
\* coordinates of embeddings and centers are drawn from 0..MaxCoord
MaxCoord == 1
\* most rows and columns of a soft assignment Q supplied to target_distribution
MaxSamples == 2
MaxCols == 2
\* the entries of a supplied Q are multiples of 1/QDen
QDen == 5

\* ------------------------------------------------------- exact arithmetic
Abs(x) == IF x < 0 THEN -x ELSE x

RECURSIVE GCD(_, _)
GCD(a, b) == IF b = 0 THEN a ELSE GCD(b, a % b)

NaN == [n |-> 0, d |-> 0]
Inf == [n |-> 1, d |-> 0]

IsNaN(x) == x.d = 0 /\ x.n = 0
IsInf(x) == x.d = 0 /\ x.n # 0
IsFinite(x) == x.d > 0

\* the number num/den for den > 0, in lowest terms
Rat(num, den) ==
    LET g == GCD(Abs(num), den)
    IN  [n |-> num \div g, d |-> den \div g]

Int2Rat(i) == [n |-> i, d |-> 1]
Zero == Int2Rat(0)
One == Int2Rat(1)

\* float addition: NaN is absorbing, Inf + finite = Inf
RAdd(x, y) ==
    IF IsNaN(x) \/ IsNaN(y) THEN NaN
    ELSE IF IsInf(x) \/ IsInf(y) THEN Inf
    ELSE Rat(x.n * y.d + y.n * x.d, x.d * y.d)

RMul(x, y) ==
    IF IsNaN(x) \/ IsNaN(y) THEN NaN
    ELSE IF IsInf(x) \/ IsInf(y)
         THEN (IF x.n = 0 \/ y.n = 0 THEN NaN ELSE Inf)
    ELSE Rat(x.n * y.n, x.d * y.d)

\* float division: 0/0 = NaN, x/0 = Inf, x/Inf = 0, Inf/Inf = NaN
RDiv(x, y) ==
    IF IsNaN(x) \/ IsNaN(y) THEN NaN
    ELSE IF IsInf(x) THEN (IF IsInf(y) THEN NaN ELSE Inf)
    ELSE IF IsInf(y) THEN Zero
    ELSE IF y.n = 0 THEN (IF x.n = 0 THEN NaN ELSE Inf)
    ELSE IF y.n > 0 THEN Rat(x.n * y.d, x.d * y.n)
    ELSE Rat(-(x.n * y.d), x.d * (-y.n))

\* x > 0 as a float comparison: false for NaN
RPos(x) == x.n > 0

RECURSIVE RSum(_)
RSum(s) == IF s = << >> THEN Zero ELSE RAdd(Head(s), RSum(Tail(s)))

RECURSIVE IPow(_, _)
IPow(b, e) == IF e = 0 THEN 1 ELSE b * IPow(b, e - 1)

RECURSIVE IProd(_)
IProd(s) == IF s = << >> THEN 1 ELSE Head(s) * IProd(Tail(s))

RECURSIVE ISum(_)
ISum(s) == IF s = << >> THEN 0 ELSE Head(s) + ISum(Tail(s))

\* ------------------------------------------------------- label sequences
SetMin(S) == CHOOSE x \in S : \A y \in S : x <= y

\* np.min(y_true)
np_min(y) == SetMin({y[p] : p \in DOMAIN y})

\* set(y)
LabelSet(y) == {y[p] : p \in DOMAIN y}

\* list(set(y)): a set of small non-negative integers (below 8) is iterated
\* in ascending order, each integer being its own hash and slot
RECURSIVE ListOfSet(_)
ListOfSet(S) ==
    IF S = {} THEN << >>
    ELSE LET m == SetMin(S) IN <<m>> \o ListOfSet(S \ {m})

\* number of positions of y holding v
Count(y, v) == Cardinality({p \in DOMAIN y : y[p] = v})

\* y_true - y_min
Shift(y) == [p \in DOMAIN y |-> y[p] - np_min(y)]

Range(s) == {s[p] : p \in DOMAIN s}

\* ------------------------------------------------------------ cluster_acc
\* y_pred[ind] = v on a 0-based index: an in-place write into the array
SetItem(y, ind, v) == [y EXCEPT ![ind + 1] = v]

\* the loop with "ind += 1" left out: every write lands on index 0
RECURSIVE ReconcileLoopStuck(_, _, _, _)
ReconcileLoopStuck(rest, l2, yp, ind) ==
    IF rest = << >> THEN yp
    ELSE IF Head(rest) \in Range(l2)
         THEN ReconcileLoopStuck(Tail(rest), l2, yp, ind)
         ELSE ReconcileLoopStuck(Tail(rest), l2, SetItem(yp, ind, Head(rest)), ind)

\* the loop "for i in l1: if i in l2: pass / else: y_pred[ind] = i; ind += 1";
\* l2 is the label list computed on entry and is not refreshed by the writes
RECURSIVE ReconcileLoop(_, _, _, _)
ReconcileLoop(rest, l2, yp, ind) ==
    IF rest = << >> THEN yp
    ELSE IF Head(rest) \in Range(l2)
         THEN ReconcileLoop(Tail(rest), l2, yp, ind)
         ELSE ReconcileLoop(Tail(rest), l2, SetItem(yp, ind, Head(rest)), ind + 1)

\* "ind = 0; if num_class1 != num_class2: <loop>": y_pred after the step
Reconcile(l1, l2, yp) ==
    IF Len(l1) # Len(l2) THEN ReconcileLoop(l1, l2, yp, 0) ELSE yp

\* cost[i][j] = number of positions with true label l1[i] and predicted l2[j]
CostMatrix(l1, l2, yt, yp) ==
    [i \in 1..Len(l1) |->
        [j \in 1..Len(l2) |->
            Cardinality({p \in DOMAIN yt : yt[p] = l1[i] /\ yp[p] = l2[j]})]]

\* the cost matrix handed to the solver without the negation
NegateOmitted(cost) == cost

\* cost.__neg__().tolist()
Negate(cost) ==
    [i \in DOMAIN cost |-> [j \in DOMAIN cost[i] |-> -cost[i][j]]]

\* the one-to-one assignments row -> column of a k x k matrix
Assignments(k) ==
    {a \in [1..k -> 1..k] : \A i, j \in 1..k : i # j => a[i] # a[j]}

TotalCost(cost, a) == ISum([i \in DOMAIN cost |-> cost[i][a[i]]])

\* Munkres().compute(cost): the solver returns, row by row, a perfect
\* assignment of minimum total cost; which one it returns among several of
\* equal cost is left open, so every minimum assignment is a possible answer
Munkres(cost) ==
    LET k == Len(cost)
    IN  {a \in Assignments(k) :
            \A b \in Assignments(k) : TotalCost(cost, a) <= TotalCost(cost, b)}

\* the remap loop taking c2 = l2[i], the solver's answer ignored
RECURSIVE RemapLoopUnmatched(_, _, _, _, _, _)
RemapLoopUnmatched(i, l1, l2, indexes, yp, np) ==
    IF i > Len(l1) THEN np
    ELSE LET c2 == l2[i]
         IN  RemapLoopUnmatched(i + 1, l1, l2, indexes, yp,
                 [p \in DOMAIN np |-> IF yp[p] = c2 THEN l1[i] ELSE np[p]])

\* "for i, c in enumerate(l1): c2 = l2[indexes[i][1]]; new_predict[ai] = c"
\* on new_predict = np.zeros(len(y_pred))
RECURSIVE RemapLoop(_, _, _, _, _, _)
RemapLoop(i, l1, l2, indexes, yp, np) ==
    IF i > Len(l1) THEN np
    ELSE LET c2 == l2[indexes[i]]
         IN  RemapLoop(i + 1, l1, l2, indexes, yp,
                 [p \in DOMAIN np |-> IF yp[p] = c2 THEN l1[i] ELSE np[p]])

Remap(l1, l2, indexes, yp) ==
    RemapLoop(1, l1, l2, indexes, yp, [p \in DOMAIN yp |-> 0])

\* metrics.accuracy_score(y_true, y_pred): fraction of equal positions
accuracy_score(yt, yp) ==
    Rat(Cardinality({p \in DOMAIN yt : yt[p] = yp[p]}), Len(yt))

\* F1 of one label: 2tp / (2tp + fp + fn), 0 when the denominator is 0
F1OfLabel(yt, yp, c) ==
    LET tp == Cardinality({p \in DOMAIN yt : yt[p] = c /\ yp[p] = c})
        fp == Cardinality({p \in DOMAIN yt : yt[p] # c /\ yp[p] = c})
        fn == Cardinality({p \in DOMAIN yt : yt[p] = c /\ yp[p] # c})
    IN  IF 2 * tp + fp + fn = 0 THEN Zero ELSE Rat(2 * tp, 2 * tp + fp + fn)

\* metrics.f1_score(y_true, y_pred, average='macro'): unweighted mean of the
\* per-label F1 over the labels present in either array
f1_score_macro(yt, yp) ==
    LET labels == ListOfSet(LabelSet(yt) \cup LabelSet(yp))
    IN  RDiv(RSum([i \in DOMAIN labels |-> F1OfLabel(yt, yp, labels[i])]),
             Int2Rat(Len(labels)))

NoScore == [kind |-> "unset", acc |-> Zero, f1 |-> Zero]

\* "return acc, f1_macro"
TupleReturn(a, f) == [kind |-> "tuple", acc |-> a, f1 |-> f]

\* the mismatch branch returning a pair of zeros instead of nothing
ZeroPairReturn == TupleReturn(Zero, Zero)

\* the bare "return" after print('error'): the caller receives None
NoneReturn == [kind |-> "none", acc |-> Zero, f1 |-> Zero]

\* cluster_acc(y_true, y_pred) as a whole: the possible results, each with
\* the contents of the caller's y_pred array when the call returns
cluster_acc(yT, yP) ==
    LET yt == Shift(yT)
        l1 == ListOfSet(LabelSet(yt))
        yp == Reconcile(l1, ListOfSet(LabelSet(yP)), yP)
        l2 == ListOfSet(LabelSet(yp))
    IN  IF Len(l1) # Len(l2)
        THEN {[ret |-> NoneReturn, y_pred |-> yp]}
        ELSE {[ret |-> TupleReturn(
                          accuracy_score(yt, Remap(l1, l2, a, yp)),
                          f1_score_macro(yt, Remap(l1, l2, a, yp))),
               y_pred |-> yp] :
                 a \in Munkres(Negate(CostMatrix(l1, l2, yt, yp)))}

\* -------------------------------------------------- eva's external metrics
\* contingency count of labels a (in yt) and b (in yp)
Cell(yt, yp, a, b) == Cardinality({p \in DOMAIN yt : yt[p] = a /\ yp[p] = b})

\* ordered pairs of distinct positions, by agreement in each labelling
PairCount(yt, yp, sameT, sameP) ==
    Cardinality({pr \in (DOMAIN yt) \X (DOMAIN yt) :
        /\ pr[1] # pr[2]
        /\ (yt[pr[1]] = yt[pr[2]]) = sameT
        /\ (yp[pr[1]] = yp[pr[2]]) = sameP})

\* sklearn.metrics.adjusted_rand_score from the pair confusion matrix:
\* 1.0 when fn = fp = 0, else 2(tp*tn - fn*fp) / ((tp+fn)(fn+tn) + (tp+fp)(fp+tn))
ari_score(yt, yp) ==
    LET tn == PairCount(yt, yp, FALSE, FALSE)
        fp == PairCount(yt, yp, FALSE, TRUE)
        fn == PairCount(yt, yp, TRUE, FALSE)
        tp == PairCount(yt, yp, TRUE, TRUE)
    IN  IF fn = 0 /\ fp = 0 THEN One
        ELSE RDiv(Int2Rat(2 * (tp * tn - fn * fp)),
                  Int2Rat((tp + fn) * (fn + tn) + (tp + fp) * (fp + tn)))

\* exp(n * H(y)): the product over the positions p of n / count(y[p])
ExpEntropy(y) ==
    Rat(IPow(Len(y), Len(y)), IProd([p \in DOMAIN y |-> Count(y, y[p])]))

\* exp(n * MI(yt, yp)): the product over the positions p of
\* n * n_ab / (n_a * n_b) for the contingency cell (a, b) of position p
ExpMutualInfo(yt, yp) ==
    Rat(IProd([p \in DOMAIN yt |-> Len(yt) * Cell(yt, yp, yt[p], yp[p])]),
        IProd([p \in DOMAIN yt |-> Count(yt, yt[p]) * Count(yp, yp[p])]))

\* normalized_mutual_info_score(yt, yp, average_method='arithmetic'):
\* 1.0 when both labellings have a single label, else
\* MI / mean(H(yt), H(yp)).  The score is kept as the three exact quantities
\* it is the function 2 ln(mi) / (ln(ht) + ln(hp)) of.
nmi_score(yt, yp) ==
    IF Cardinality(LabelSet(yt)) = 1 /\ Cardinality(LabelSet(yp)) = 1
    THEN [mi |-> One, ht |-> One, hp |-> One]
    ELSE [mi |-> ExpMutualInfo(yt, yp), ht |-> ExpEntropy(yt), hp |-> ExpEntropy(yp)]

\* ------------------------------------------ q_distribute, target_distribution
\* matrices are sequences of rows
NRows(m) == Len(m)
NCols(m) == Len(m[1])

\* m.t()
Transpose(m) == [j \in 1..NCols(m) |-> [i \in 1..NRows(m) |-> m[i][j]]]

\* torch.sum(m, 1): the sum of every row
SumDim1(m) == [i \in 1..NRows(m) |-> RSum(m[i])]

\* m.sum(0): the sum of every column
SumDim0(m) == SumDim1(Transpose(m))

\* m / v for a vector v as long as the rows of m: v is broadcast over the rows
DivByVec(m, v) ==
    [i \in 1..NRows(m) |-> [j \in 1..NCols(m) |-> RDiv(m[i][j], v[j])]]

\* torch.sum(torch.pow(Z.unsqueeze(1) - cluster_centers, 2), 2)[i][j]
SqDist(z, c) == ISum([t \in DOMAIN z |-> (z[t] - c[t]) * (z[t] - c[t])])

\* q.min() > 0
AllPositive(m) == \A i \in 1..NRows(m) : \A j \in 1..NCols(m) : RPos(m[i][j])

Raised(e) == [kind |-> e, m |-> << >>]
Returned(m) == [kind |-> "matrix", m |-> m]

\* q_distribute normalising over the wrong axis (q / q.sum(0))
q_distribute_colnorm(Zm, Cm) ==
    LET q == [i \in 1..Len(Zm) |->
                [j \in 1..Len(Cm) |->
                    RDiv(One, RAdd(One, Int2Rat(SqDist(Zm[i], Cm[j]))))]]
    IN  IF ~AllPositive(q) THEN Raised("AssertionError")
        ELSE Returned(DivByVec(q, SumDim0(q)))

\* q_distribute(Z, cluster_centers), lines 66-69
q_distribute(Zm, Cm) ==
    LET q == [i \in 1..Len(Zm) |->
                [j \in 1..Len(Cm) |->
                    RDiv(One, RAdd(One, Int2Rat(SqDist(Zm[i], Cm[j]))))]]
    IN  IF ~AllPositive(q) THEN Raised("AssertionError")
        ELSE Returned(Transpose(DivByVec(Transpose(q), SumDim1(q))))

\* target_distribution dividing Q ** 2 by the row sums Q.sum(1)
target_distribution_rowsum(Qm) ==
    LET weight == Transpose(DivByVec(Transpose(
                      [i \in 1..NRows(Qm) |->
                          [j \in 1..NCols(Qm) |-> RMul(Qm[i][j], Qm[i][j])]]),
                      SumDim1(Qm)))
    IN  Returned(Transpose(DivByVec(Transpose(weight), SumDim1(weight))))

\* target_distribution(Q), lines 79-81
target_distribution(Qm) ==
    LET weight == DivByVec([i \in 1..NRows(Qm) |->
                              [j \in 1..NCols(Qm) |-> RMul(Qm[i][j], Qm[i][j])]],
                           SumDim0(Qm))
    IN  Returned(Transpose(DivByVec(Transpose(weight), SumDim1(weight))))

\* ------------------------------------------------------------------- state
VARIABLES
    pc,            \* position in the running call
    y_true,        \* the caller's ground-truth array
    y_pred,        \* the caller's predicted-label array (written in place)
    y_true_in,     \* y_true as it was when the call was made
    y_pred_in,     \* y_pred as it was when the call was made
    show_details,  \* eva's flag
    yt,            \* cluster_acc's local y_true - y_min
    l1, l2,        \* cluster_acc's label lists
    cost,          \* cluster_acc's (negated) cost matrix, << >> before it is built
    indexes,       \* the solver's answer, << >> before the solver ran
    new_predict,   \* the remapped prediction
    ca_ret,        \* what cluster_acc returned
    scores,        \* eva's nmi and ari
    eva_ret,       \* how eva ended
    stdout,        \* the lines printed
    pi,            \* a relabeling of the predicted labels
    res1, res2,    \* cluster_acc on y_pred and on the relabeled y_pred
    Z, centers,    \* embedding matrix and cluster centers
    Q, P           \* soft assignment handed to / target distribution returned by
                   \* target_distribution

vars == <<pc, y_true, y_pred, y_true_in, y_pred_in, show_details, yt, l1, l2, cost,
          indexes, new_predict, ca_ret, scores, eva_ret, stdout,
          pi, res1, res2, Z, centers, Q, P>>

caLocals == <<yt, l1, l2, cost, indexes, new_predict>>
permVars == <<pi, res1, res2>>
distVars == <<Z, centers, Q, P>>

NoNmi == [mi |-> Zero, ht |-> Zero, hp |-> Zero]
NoScores == [nmi |-> NoNmi, ari |-> Zero]
NoEva == [kind |-> "unset", acc |-> Zero, nmi |-> NoNmi, ari |-> Zero, f1 |-> Zero]
NoRes == [ret |-> NoScore, y_pred |-> << >>]
NoMatrix == [kind |-> "unset", m |-> << >>]

\* label arrays of length n
LabelArrays(n) == [1..n -> 0..MaxLabel]

InitLabels ==
    /\ \E n \in 1..MaxN :
          /\ y_true \in LabelArrays(n)
          /\ y_pred \in LabelArrays(n)
    /\ y_true_in = y_true
    /\ y_pred_in = y_pred
    /\ yt = << >> /\ l1 = << >> /\ l2 = << >>
    /\ cost = << >> /\ indexes = << >> /\ new_predict = << >>
    /\ ca_ret = NoScore /\ scores = NoScores /\ eva_ret = NoEva
    /\ stdout = << >>

InitNoPerm == pi = << >> /\ res1 = NoRes /\ res2 = NoRes

InitNoDist == Z = << >> /\ centers = << >> /\ Q = << >> /\ P = NoMatrix

\* ------------------------------------------------- eva calling cluster_acc
\* eva(y_true, y_pred, show_details) has been called and is at line 144
Init ==
    /\ pc = "eva_call"
    /\ show_details \in BOOLEAN
    /\ InitLabels /\ InitNoPerm /\ InitNoDist

\* cluster_acc lines 95-110: shift, label lists, cardinality reconciliation
CA_Reconcile ==
    /\ pc = "eva_call"
    /\ yt' = Shift(y_true)
    /\ l1' = ListOfSet(LabelSet(yt'))
    /\ y_pred' = Reconcile(l1', ListOfSet(LabelSet(y_pred)), y_pred)
    /\ l2' = ListOfSet(LabelSet(y_pred'))
    /\ pc' = "ca_check"
    /\ UNCHANGED <<y_true, y_true_in, y_pred_in, show_details, cost, indexes, new_predict,
                   ca_ret, scores, eva_ret, stdout, permVars, distVars>>

\* the check of line 111 left out
NeverMismatched(a, b) == FALSE

\* "if num_class1 != numclass2" on the label lists after the reconciliation
StillMismatched(a, b) == Len(a) # Len(b)

\* cluster_acc lines 111-113: print('error'); return
CA_Error ==
    /\ pc = "ca_check"
    /\ StillMismatched(l1, l2)
    /\ stdout' = Append(stdout, [text |-> "error", args |-> << >>])
    /\ ca_ret' = NoneReturn
    /\ pc' = "ca_return"
    /\ UNCHANGED <<y_true, y_pred, y_true_in, y_pred_in, show_details, caLocals, scores,
                   eva_ret, permVars, distVars>>

\* cluster_acc lines 114-121: the cost matrix, negated
CA_Cost ==
    /\ pc = "ca_check"
    /\ ~StillMismatched(l1, l2)
    /\ cost' = Negate(CostMatrix(l1, l2, yt, y_pred))
    /\ pc' = "ca_solve"
    /\ UNCHANGED <<y_true, y_pred, y_true_in, y_pred_in, show_details, yt, l1, l2, indexes,
                   new_predict, ca_ret, scores, eva_ret, stdout, permVars, distVars>>

\* cluster_acc line 122: indexes = m.compute(cost)
CA_Solve ==
    /\ pc = "ca_solve"
    /\ indexes' \in Munkres(cost)
    /\ pc' = "ca_remap"
    /\ UNCHANGED <<y_true, y_pred, y_true_in, y_pred_in, show_details, yt, l1, l2, cost,
                   new_predict, ca_ret, scores, eva_ret, stdout, permVars, distVars>>

\* cluster_acc lines 123-130: new_predict, then return acc, f1_macro
CA_Score ==
    /\ pc = "ca_remap"
    /\ new_predict' = Remap(l1, l2, indexes, y_pred)
    /\ ca_ret' = TupleReturn(accuracy_score(yt, new_predict'),
                             f1_score_macro(yt, new_predict'))
    /\ pc' = "ca_return"
    /\ UNCHANGED <<y_true, y_pred, y_true_in, y_pred_in, show_details, yt, l1, l2,
                   cost, indexes, scores, eva_ret, stdout, permVars, distVars>>

\* "acc, f1 = <value>" succeeds on a pair and raises TypeError on None
Unpackable(r) == r.kind = "tuple"

\* eva line 144 when cluster_acc returned None: the unpacking raises
Eva_UnpackFail ==
    /\ pc = "ca_return"
    /\ ~Unpackable(ca_ret)
    /\ eva_ret' = [NoEva EXCEPT !.kind = "TypeError"]
    /\ pc' = "eva_done"
    /\ UNCHANGED <<y_true, y_pred, y_true_in, y_pred_in, show_details, caLocals, ca_ret,
                   scores, stdout, permVars, distVars>>

\* the scores taken on the labels as they were passed in, as if cluster_acc
\* had worked on a copy
eva_scores_on_entry(yT, yP) ==
    [nmi |-> nmi_score(yT, y_pred_in), ari |-> ari_score(yT, y_pred_in)]

\* eva lines 145-146: nmi_score(y_true, y_pred) and ari_score(y_true, y_pred)
\* on eva's own arguments, after cluster_acc has returned
eva_scores(yT, yP) == [nmi |-> nmi_score(yT, yP), ari |-> ari_score(yT, yP)]

\* eva lines 144-146: acc, f1 unpacked; nmi and ari computed
Eva_Metrics ==
    /\ pc = "ca_return"
    /\ Unpackable(ca_ret)
    /\ scores' = eva_scores(y_true, y_pred)
    /\ pc' = "eva_print"
    /\ UNCHANGED <<y_true, y_pred, y_true_in, y_pred_in, show_details, caLocals, ca_ret,
                   eva_ret, stdout, permVars, distVars>>

\* eva lines 147-150: the optional score line, then return acc, nmi, ari, f1
Eva_Return ==
    /\ pc = "eva_print"
    /\ stdout' = IF show_details
                 THEN Append(stdout,
                        [text |-> ":acc , nmi , ari , f1",
                         args |-> <<ca_ret.acc, scores.nmi, scores.ari, ca_ret.f1>>])
                 ELSE stdout
    /\ eva_ret' = [kind |-> "tuple", acc |-> ca_ret.acc, nmi |-> scores.nmi,
                   ari |-> scores.ari, f1 |-> ca_ret.f1]
    /\ pc' = "eva_done"
    /\ UNCHANGED <<y_true, y_pred, y_true_in, y_pred_in, show_details, caLocals, ca_ret,
                   scores, permVars, distVars>>

Next ==
    \/ CA_Reconcile
    \/ CA_Error
    \/ CA_Cost
    \/ CA_Solve
    \/ CA_Score
    \/ Eva_UnpackFail
    \/ Eva_Metrics
    \/ Eva_Return

Spec == Init /\ [][Next]_vars

\* ------------------------------- cluster_acc on y_pred and on a relabeling
\* the relabelings of the label values: the bijections of 0..MaxLabel
Relabelings ==
    {f \in [0..MaxLabel -> 0..MaxLabel] :
        \A a, b \in 0..MaxLabel : a # b => f[a] # f[b]}

\* pi applied to every entry of y
Relabel(f, y) == [p \in DOMAIN y |-> f[y[p]]]

InitPerm ==
    /\ pc = "perm_first"
    /\ show_details = FALSE
    /\ InitLabels /\ InitNoPerm /\ InitNoDist

\* cluster_acc(y_true, y_pred)
PermFirst ==
    /\ pc = "perm_first"
    /\ \E r \in cluster_acc(y_true, y_pred) :
          /\ res1' = r
          /\ y_pred' = r.y_pred
    /\ pc' = "perm_second"
    /\ UNCHANGED <<y_true, y_true_in, y_pred_in, show_details, caLocals, ca_ret, scores,
                   eva_ret, stdout, pi, res2, distVars>>

\* cluster_acc(y_true, pi(y_pred)) on a relabeling of the labels first passed
PermSecond ==
    /\ pc = "perm_second"
    /\ \E f \in Relabelings :
          /\ pi' = f
          /\ res2' \in cluster_acc(y_true, Relabel(f, y_pred_in))
    /\ pc' = "perm_done"
    /\ UNCHANGED <<y_true, y_pred, y_true_in, y_pred_in, show_details, caLocals, ca_ret,
                   scores, eva_ret, stdout, res1, distVars>>

NextPerm == PermFirst \/ PermSecond

SpecPerm == InitPerm /\ [][NextPerm]_vars

\* --------------------------------------- q_distribute, target_distribution
Vectors(d) == [1..d -> 0..MaxCoord]

\* n x d matrices of coordinates
CoordMatrices(n, d) == [1..n -> Vectors(d)]

RECURSIVE RowsSummingTo(_, _)
\* the rows of k non-negative integers that sum to t
RowsSummingTo(k, t) ==
    IF k = 0 THEN (IF t = 0 THEN {<< >>} ELSE {})
    ELSE UNION {{<<x>> \o r : r \in RowsSummingTo(k - 1, t - x)} : x \in 0..t}

\* soft assignments on the grid of multiples of 1/QDen whose rows sum to 1
\* (zero entries included)
GridQ(n, k) ==
    {[i \in 1..n |-> [j \in 1..k |-> Rat(m[i][j], QDen)]] :
        m \in [1..n -> RowsSummingTo(k, QDen)]}

\* either q_distribute is about to be called on (Z, centers), or
\* target_distribution is about to be called on a supplied Q
InitDist ==
    /\ \/ /\ pc = "q_call"
          /\ \E n \in 1..MaxPoints, k \in 1..MaxClusters, d \in 1..MaxDim :
                /\ Z \in CoordMatrices(n, d)
                /\ centers \in CoordMatrices(k, d)
          /\ Q = << >>
       \/ /\ pc = "p_call"
          /\ \E n \in 1..MaxSamples, k \in 1..MaxCols : Q \in GridQ(n, k)
          /\ Z = << >> /\ centers = << >>
    /\ P = NoMatrix
    /\ show_details = FALSE
    /\ y_true = << >> /\ y_pred = << >>
    /\ y_true_in = << >> /\ y_pred_in = << >>
    /\ yt = << >> /\ l1 = << >> /\ l2 = << >>
    /\ cost = << >> /\ indexes = << >> /\ new_predict = << >>
    /\ ca_ret = NoScore /\ scores = NoScores /\ eva_ret = NoEva
    /\ stdout = << >>
    /\ InitNoPerm

\* Q = q_distribute(Z, centers): the matrix is returned, or the assertion of
\* line 67 fails and nothing is returned
QDistribute ==
    /\ pc = "q_call"
    /\ LET r == q_distribute(Z, centers)
       IN  IF r.kind = "matrix"
           THEN Q' = r.m /\ pc' = "q_done"
           ELSE Q' = Q /\ pc' = "q_raised"
    /\ UNCHANGED <<y_true, y_pred, y_true_in, y_pred_in, show_details, caLocals, ca_ret,
                   scores, eva_ret, stdout, permVars, Z, centers, P>>

\* P = target_distribution(Q)
TargetDistribution ==
    /\ pc = "p_call"
    /\ P' = target_distribution(Q)
    /\ pc' = "p_done"
    /\ UNCHANGED <<y_true, y_pred, y_true_in, y_pred_in, show_details, caLocals, ca_ret,
                   scores, eva_ret, stdout, permVars, Z, centers, Q>>

NextDist == QDistribute \/ TargetDistribution

SpecDist == InitDist /\ [][NextDist]_vars

\* ============================================================== properties
\* cluster_acc has returned to eva
AfterCall == pc \in {"ca_return", "eva_print", "eva_done"}

DistinctCount(y) == Cardinality(LabelSet(y))

\* the label arrays a and b induce the same partition of the positions
SamePartition(a, b) ==
    \A p, q \in DOMAIN a : (a[p] = a[q]) <=> (b[p] = b[q])

\* the distinct min-shifted true labels absent from the labels y_pred had on
\* entry, in the order of cluster_acc's list l1
MissingOnEntry ==
    SelectSeq(ListOfSet(LabelSet(Shift(y_true_in))),
              LAMBDA v : v \notin LabelSet(y_pred_in))

\* the number of positions cluster_acc may write: 0 unless the label counts
\* differed on entry
WrittenPrefix ==
    IF DistinctCount(Shift(y_true_in)) # DistinctCount(y_pred_in)
    THEN Len(MissingOnEntry) ELSE 0

\* y_pred as the reconciliation leaves it: the t-th missing label at
\* position t, every later position as on entry
RewrittenPred ==
    LET missing == MissingOnEntry
        m == WrittenPrefix
    IN  [p \in DOMAIN y_pred_in |->
            IF p <= m THEN missing[p] ELSE y_pred_in[p]]

\* C1: cluster_acc is invariant under relabeling of the predicted labels: the
\* result on pi(y_pred) is a result cluster_acc can produce on y_pred and the
\* other way round (same outcome, same accuracy, same f1_macro up to the
\* solver's choice among equally good matchings), also when y_true and
\* y_pred have different numbers of distinct labels.
C1_RelabelingInvariant ==
    pc = "perm_done" =>
        /\ res2.ret \in {r.ret : r \in cluster_acc(y_true_in, y_pred_in)}
        /\ res1.ret \in {r.ret : r \in cluster_acc(y_true_in, Relabel(pi, y_pred_in))}

\* pi maps the labels y_pred had on entry onto themselves
KeepsAlphabet == {pi[v] : v \in LabelSet(y_pred_in)} = LabelSet(y_pred_in)

\* Supporting lemma for C1: the invariance does hold, up to the solver's
\* choice among equally good matchings, when y_true and y_pred have the same
\* number of distinct labels (the reconciliation writes nothing) or when pi
\* permutes y_pred's own labels (the same labels are missing in both calls).
RelabelingInvariantWhenInert ==
    (/\ pc = "perm_done"
     /\ \/ DistinctCount(y_true_in) = DistinctCount(y_pred_in)
        \/ KeepsAlphabet) =>
        /\ res1.ret.kind = res2.ret.kind
        /\ res1.ret.acc = res2.ret.acc
        /\ {r.ret : r \in cluster_acc(y_true_in, y_pred_in)}
               = {r.ret : r \in cluster_acc(y_true_in, Relabel(pi, y_pred_in))}

\* C2: when y_pred is a bijective relabeling of y_true (equal positions of
\* one carry equal labels in the other and conversely), cluster_acc returns
\* accuracy 1.0 and f1_macro 1.0.
C2_PerfectOnRelabeling ==
    (AfterCall /\ SamePartition(y_true_in, y_pred_in)) =>
        ca_ret = TupleReturn(One, One)

C2_Witness ==
    /\ pc = "ca_return"
    /\ y_true_in = <<0, 0, 1>>
    /\ y_pred_in = <<1, 1, 2>>
    /\ ca_ret = TupleReturn(One, One)

\* the one-to-one correspondences from the predicted labels to the true labels
Correspondences(yT, yP) ==
    {g \in [LabelSet(yP) -> LabelSet(yT)] :
        \A a, b \in LabelSet(yP) : a # b => g[a] # g[b]}

\* positions whose predicted label is matched by g to their true label
Overlap(yT, yP, g) == Cardinality({p \in DOMAIN yT : g[yP[p]] = yT[p]})

BestOverlap(yT, yP) ==
    CHOOSE best \in 0..Len(yT) :
        /\ \E g \in Correspondences(yT, yP) : Overlap(yT, yP, g) = best
        /\ \A g \in Correspondences(yT, yP) : Overlap(yT, yP, g) <= best

\* C3: when y_true and y_pred have the same number of distinct labels, the
\* accuracy returned is the largest fraction of positions any one-to-one
\* correspondence between predicted and true labels gets right.
C3_AccuracyIsBestMatching ==
    (AfterCall /\ DistinctCount(y_true_in) = DistinctCount(y_pred_in)) =>
        /\ ca_ret.kind = "tuple"
        /\ ca_ret.acc = Rat(BestOverlap(y_true_in, y_pred_in), Len(y_true_in))

\* two classes each, the best correspondence is not the one pairing the
\* label lists in order, and it is neither perfect nor empty
C3_Witness ==
    /\ pc = "ca_return"
    /\ DistinctCount(y_true_in) = 2
    /\ DistinctCount(y_pred_in) = 2
    /\ \E i \in DOMAIN indexes : indexes[i] # i
    /\ ca_ret.kind = "tuple"
    /\ ca_ret.acc = Rat(BestOverlap(y_true_in, y_pred_in), Len(y_true_in))
    /\ ca_ret.acc \notin {Zero, One}

\* the reconciliation step is over and the label counts still differ
MismatchAfterReconcile ==
    /\ pc # "eva_call"
    /\ DistinctCount(y_pred) # DistinctCount(y_true_in)

PrintedError == \E i \in DOMAIN stdout : stdout[i].text = "error"

PrintedScores == \E i \in DOMAIN stdout : stdout[i].text = ":acc , nmi , ari , f1"

\* C4: when the label counts still differ after the relabeling step,
\* cluster_acc fails: it reports 'error' and hands its caller None, never an
\* (accuracy, f1_macro) pair, and the cost matrix, the solver and the remap
\* are never run.
C4_MismatchFails ==
    MismatchAfterReconcile =>
        /\ cost = << >> /\ indexes = << >> /\ new_predict = << >>
        /\ ca_ret.kind # "tuple"
        /\ AfterCall => (ca_ret = NoneReturn /\ PrintedError)

C4_Witness ==
    /\ pc = "ca_return"
    /\ MismatchAfterReconcile
    /\ y_pred # y_pred_in
    /\ ca_ret = NoneReturn
    /\ PrintedError
    /\ cost = << >>

\* C5: when cluster_acc fails on a cardinality mismatch, eva fails too (the
\* unpacking of None raises TypeError): it returns no (acc, nmi, ari, f1)
\* tuple, computes no nmi / ari and prints no score line.
C5_EvaPropagates ==
    MismatchAfterReconcile =>
        /\ eva_ret.kind # "tuple"
        /\ scores = NoScores
        /\ ~PrintedScores
        /\ pc \notin {"eva_print"}
        /\ pc = "eva_done" => eva_ret.kind = "TypeError"

C5_Witness ==
    /\ pc = "eva_done"
    /\ MismatchAfterReconcile
    /\ show_details
    /\ eva_ret.kind = "TypeError"
    /\ ~PrintedScores

\* q_distribute was called on (Z, centers) and has ended
QCalled == pc \in {"q_done", "q_raised"}

\* 1 + squared Euclidean distance between Z[i] and centers[j]
KernelDenominator(i, j) == Int2Rat(1 + SqDist(Z[i], centers[j]))

\* C6: q_distribute(Z, C) returns an n x k matrix Q whose entries are all
\* strictly positive, whose rows each sum to 1, and in which Q[i][j] is
\* proportional within row i to 1 / (1 + squared distance of Z[i] and C[j]).
C6_SoftAssignment ==
    QCalled =>
        /\ pc # "q_raised"
        /\ Len(Q) = Len(Z)
        /\ \A i \in 1..Len(Z) :
              /\ Len(Q[i]) = Len(centers)
              /\ RSum(Q[i]) = One
              /\ \A j \in 1..Len(centers) :
                    /\ IsFinite(Q[i][j]) /\ RPos(Q[i][j])
                    /\ \A j2 \in 1..Len(centers) :
                          RMul(Q[i][j], KernelDenominator(i, j))
                              = RMul(Q[i][j2], KernelDenominator(i, j2))

\* two centers at different distances from sample 1
C6_Witness ==
    /\ pc = "q_done"
    /\ Len(centers) = 2
    /\ SqDist(Z[1], centers[1]) # SqDist(Z[1], centers[2])
    /\ RSum(Q[1]) = One
    /\ Q[1][1] # Q[1][2]
    /\ RPos(Q[1][1]) /\ RPos(Q[1][2])

\* Q is row-stochastic with strictly positive entries
ValidQ ==
    /\ Q # << >>
    /\ \A i \in 1..NRows(Q) :
          /\ RSum(Q[i]) = One
          /\ \A j \in 1..NCols(Q) : IsFinite(Q[i][j]) /\ RPos(Q[i][j])

\* the sum of column j of Q
ColumnSum(j) == RSum([i \in 1..NRows(Q) |-> Q[i][j]])

\* Q[i][j]^2 / (sum of column j of Q)
SharpenedWeight(i, j) == RDiv(RMul(Q[i][j], Q[i][j]), ColumnSum(j))

\* C7: for a row-stochastic Q with strictly positive entries,
\* target_distribution(Q) returns a matrix P of the shape of Q whose rows
\* each sum to 1 and in which P[i][j] is proportional within row i to
\* Q[i][j]^2 / (sum of column j of Q).
C7_TargetDistribution ==
    (pc = "p_done" /\ ValidQ) =>
        /\ P.kind = "matrix"
        /\ NRows(P.m) = NRows(Q)
        /\ \A i \in 1..NRows(Q) :
              /\ Len(P.m[i]) = NCols(Q)
              /\ RSum(P.m[i]) = One
              /\ \A j, j2 \in 1..NCols(Q) :
                    RMul(P.m[i][j], SharpenedWeight(i, j2))
                        = RMul(P.m[i][j2], SharpenedWeight(i, j))

\* two rows, unequal column sums, and P differs from Q
C7_Witness ==
    /\ pc = "p_done" /\ ValidQ
    /\ NRows(Q) = 2 /\ NCols(Q) >= 2
    /\ ColumnSum(1) # ColumnSum(2)
    /\ Q[1] # Q[2]
    /\ P.kind = "matrix" /\ P.m # Q
    /\ RSum(P.m[1]) = One /\ RSum(P.m[2]) = One

\* C8: if a column of Q sums to exactly zero, target_distribution(Q) ends in
\* an error and returns no matrix; it never returns a P with NaN / Inf entries.
C8_EmptyClusterIsFatal ==
    (pc = "p_done" /\ \E j \in 1..NCols(Q) : ColumnSum(j) = Zero) =>
        P.kind # "matrix"

\* C9: cluster_acc never modifies the caller's y_true; it modifies the
\* caller's y_pred only when the numbers of distinct labels of the shifted
\* y_true and of y_pred differ on entry, and then it writes exactly the
\* positions 0..m-1 (m = number of distinct shifted true labels absent from
\* y_pred's labels on entry), the t-th missing label at position t, every
\* position >= m unchanged.
C9_FrameOfReconcile ==
    /\ y_true = y_true_in
    /\ pc = "eva_call" => y_pred = y_pred_in
    /\ pc # "eva_call" => y_pred = RewrittenPred

\* two labels are missing and written, a later position keeps its value
C9_Witness ==
    /\ pc = "ca_return"
    /\ WrittenPrefix = 2
    /\ Len(y_pred) > 2
    /\ y_pred[1] = MissingOnEntry[1] /\ y_pred[2] = MissingOnEntry[2]
    /\ y_pred[1] # y_pred_in[1] /\ y_pred[2] # y_pred_in[2]
    /\ y_pred[3] = y_pred_in[3]
    /\ y_true = y_true_in

\* C10: in eva the nmi and ari are computed after cluster_acc, on the same
\* y_pred array: when eva returns, they are the scores of the caller's
\* unshifted y_true against y_pred as cluster_acc's reconciliation left it.
C10_ScoresUseRewrittenPred ==
    (pc = "eva_done" /\ eva_ret.kind = "tuple") =>
        LET rewritten == RewrittenPred
        IN  /\ eva_ret.nmi = nmi_score(y_true_in, rewritten)
            /\ eva_ret.ari = ari_score(y_true_in, rewritten)

\* the reconciliation rewrote y_pred, cluster_acc still succeeded, and both
\* scores differ from those of the labels passed in
C10_Witness ==
    /\ pc = "eva_done" /\ eva_ret.kind = "tuple"
    /\ y_pred # y_pred_in
    /\ eva_ret.nmi = nmi_score(y_true_in, y_pred)
    /\ eva_ret.nmi # nmi_score(y_true_in, y_pred_in)
    /\ eva_ret.ari # ari_score(y_true_in, y_pred_in)

====
